---- MODULE Spec2Model ----
(***************************************************************************)
(* Model of google/cloud/pontem/sql/replicator/util/cloudsql.py, the       *)
(* wrapper for the Cloud SQL Admin API service proxy.                      *)
(*                                                                         *)
(* One invocation of one public operation is one action.  The action draws *)
(* the caller's arguments, the uuid4 token and the reply the provisioning  *)
(* service gives to a request, and records the requests the invocation     *)
(* issued and its outcome (a returned value or a raised exception).        *)
(* Python values are tagged records, so that None, '', {} and a populated  *)
(* document stay distinct and Python's truthiness can be computed.         *)
(***************************************************************************)
EXTENDS Integers, Sequences, FiniteSets, TLC

VARIABLES
    adc,        \* the ambient application-default credentials of the process
    op,         \* the public operation invoked ("none" before the call)
    args,       \* the arguments the caller supplied (Omitted = not passed)
    reply,      \* what the service answers to a request of this invocation
    requests,   \* the requests the invocation sent to the service, in order
    outcome     \* how the invocation ended: a return value or an exception

vars == <<adc, op, args, reply, requests, outcome>>

----------------------------------------------------------------------------
(* Bounds of the model.                                                    *)

\* longest ipAddresses list in a fetched instance document
MaxAddrs == 2

----------------------------------------------------------------------------
(* Python values.                                                          *)

None_ == [type |-> "NoneType"]
Str(s) == [type |-> "str", val |-> s]
Dict(d) == [type |-> "dict", items |-> d]
List(q) == [type |-> "list", items |-> q]
Tuple(q) == [type |-> "tuple", items |-> q]
Bool(b) == [type |-> "bool", val |-> b]
Uuid(h) == [type |-> "UUID", hex |-> h]
Credentials(c) == [type |-> "Credentials", id |-> c]

\* a keyword argument the caller did not pass
Omitted == [type |-> "omitted"]

\* the parameter's value: the signature's default when not passed
Arg(v, default) == IF v = Omitted THEN default ELSE v

\* bool(v)
Truthy(v) ==
    CASE v.type = "NoneType" -> FALSE
      [] v.type = "str" -> v.val # ""
      [] v.type = "dict" -> DOMAIN v.items # {}
      [] v.type = "list" -> Len(v.items) > 0
      [] v.type = "bool" -> v.val
      [] OTHER -> TRUE

\* a or b
Or(a, b) == IF Truthy(a) THEN a ELSE b

\* str(v), as str.format renders a '{}' field
ToStr(v) ==
    CASE v.type = "NoneType" -> "None"
      [] v.type = "str" -> v.val
      [] v.type = "UUID" -> v.hex

\* fmt.format(*fmtargs): fmt is the format string cut at its '{}' fields
RECURSIVE Format(_, _)
Format(fmt, fmtargs) ==
    IF fmt = << >> THEN ""
    ELSE IF Head(fmt) = "{}"
         THEN ToStr(Head(fmtargs)) \o Format(Tail(fmt), Tail(fmtargs))
         ELSE Head(fmt) \o Format(Tail(fmt), fmtargs)

\* key in d
HasKey(d, key) == key \in DOMAIN d.items

\* how a call ends
Return(v) == [kind |-> "return", value |-> v]
Raise(e) == [kind |-> "raise", exc |-> e]

\* what a call did: the requests it sent and how it ended
Result(reqs, out) == [requests |-> reqs, outcome |-> out]

----------------------------------------------------------------------------
(* Module constants.                                                       *)

DEFAULT_2ND_GEN_DB_VERSION == Str("MYSQL_5_7")
\* the first-generation tier ('d2') used where the second-generation one belongs
FirstGenTier == Str("d2")
DEFAULT_2ND_GEN_TIER == Str("db-n1-standard-2")
DEFAULT_2ND_GEN_REGION == Str("us-central1")
DEFAULT_REPLICATION_PORT == Str("3306")
DEFAULT_CLOUDSQL_FORMAT_STRING == <<"cloudsql-db-", "{}">>
DEFAULT_EXT_MASTER_FORMAT_STRING == <<"external-mysql-representation-", "{}">>
DEFAULT_REPLICA_FORMAT_STRING == <<"cloudsql-replica-", "{}">>
SQL_ADMIN_SERVICE == "sqladmin"
SQL_ADMIN_SERVICE_VERSION == "v1beta4"
IP_ADDRESSES == "ipAddresses"
IP_ADDRESS == "ipAddress"
SERVICE_ACCOUNT_EMAIL == "serviceAccountEmailAddress"
HTTP_NOT_FOUND == 404

----------------------------------------------------------------------------
(* External collaborators: the credential provider and the service proxy.  *)

\* google.auth.default(): the (credentials, project) pair of the process,
\* or DefaultCredentialsError when the environment holds none
google_auth_default(a) ==
    IF a.ok
    THEN Return(Tuple(<<a.credentials, a.project>>))
    ELSE Raise([cls |-> "DefaultCredentialsError"])

\* gcp_api_util.build_authorized_service(service, version, credentials)
build_authorized_service(service, version, credentials) ==
    [service |-> service, version |-> version, credentials |-> credentials]

\* request.execute() with automatic re-issue of a failed request
ExecuteWithRetry(request, rep) ==
    IF rep.kind = "ok"
    THEN Result(<<request>>, Return(rep.doc))
    ELSE Result(<<request, request>>, Raise(rep.exc))

\* request.execute(): sends the request once; the service's document is the
\* value, the transport's error is raised
Execute(request, rep) ==
    IF rep.kind = "ok"
    THEN Result(<<request>>, Return(rep.doc))
    ELSE Result(<<request>>, Raise(rep.exc))

----------------------------------------------------------------------------
(* The functions of cloudsql.py.  Each takes, after the Python parameters, *)
(* the ambient credentials a and the service's reply rep.                  *)

build_sql_admin_service(credentials, a) ==
    LET auth == google_auth_default(a) IN
    IF auth.kind = "raise" THEN auth
    ELSE LET default_credentials == auth.value.items[1] IN
         Return(build_authorized_service(
                    SQL_ADMIN_SERVICE,
                    SQL_ADMIN_SERVICE_VERSION,
                    Or(credentials, default_credentials)))

create_cloudsql_instance(database_instance_body, project, credentials, uuid4, a, rep) ==
    LET auth == google_auth_default(a) IN
    IF auth.kind = "raise" THEN Result(<< >>, auth)
    ELSE
    LET default_credentials == auth.value.items[1]
        default_project == auth.value.items[2]
        default_database_instance_body ==
            Dict([name |-> Str(Format(DEFAULT_CLOUDSQL_FORMAT_STRING, <<uuid4>>)),
                  settings |-> Dict([tier |-> DEFAULT_2ND_GEN_TIER])])
        service == build_sql_admin_service(Or(credentials, default_credentials), a)
    IN
    IF service.kind = "raise" THEN Result(<< >>, service)
    ELSE
    LET request ==
            [method |-> "instances.insert",
             credentials |-> service.value.credentials,
             project |-> Or(project, default_project),
             body |-> Or(database_instance_body, default_database_instance_body)]
    IN Execute(request, rep)

create_source_representation(ip_address, port, database_version, region, source_name, source_body, project, credentials, uuid4, a, rep) ==
    LET default_source_body ==
            Dict([name |->
                      Or(source_name,
                         Str(Format(DEFAULT_EXT_MASTER_FORMAT_STRING, <<uuid4>>))),
                  databaseVersion |-> database_version,
                  region |-> region,
                  onPremisesConfiguration |->
                      Dict([kind |-> Str("sql#onPremisesConfiguration"),
                            hostPort |->
                                Str(Format(<<"{}", ":", "{}">>,
                                           <<ip_address, port>>))])])
    IN create_cloudsql_instance(Or(source_body, default_source_body),
                                project, credentials, uuid4, a, rep)

create_replica_instance(master_instance_name, dumpfile_path, replica_user, replica_pwd, replica_name, replica_body, project, credentials, uuid4, a, rep) ==
    LET default_replica_body ==
            Dict([name |->
                      Or(replica_name,
                         Str(Format(DEFAULT_REPLICA_FORMAT_STRING, <<uuid4>>))),
                  settings |-> Dict([tier |-> DEFAULT_2ND_GEN_TIER]),
                  databaseVersion |-> DEFAULT_2ND_GEN_DB_VERSION,
                  masterInstanceName |-> master_instance_name,
                  region |-> DEFAULT_2ND_GEN_REGION,
                  replicaConfiguration |->
                      Dict([mysqlReplicaConfiguration |->
                                Dict([dumpFilePath |-> dumpfile_path,
                                      username |-> replica_user,
                                      password |-> replica_pwd])])])
    IN create_cloudsql_instance(Or(replica_body, default_replica_body),
                                project, credentials, uuid4, a, rep)

import_sql_database(database_instance, import_file_uri, project, credentials, a, rep) ==
    LET auth == google_auth_default(a) IN
    IF auth.kind = "raise" THEN Result(<< >>, auth)
    ELSE
    LET default_credentials == auth.value.items[1]
        default_project == auth.value.items[2]
        service == build_sql_admin_service(Or(credentials, default_credentials), a)
    IN
    IF service.kind = "raise" THEN Result(<< >>, service)
    ELSE
    LET instances_import_request_body ==
            Dict([importContext |->
                      Dict([kind |-> Str("sql#importContext"),
                            fileType |-> Str("SQL"),
                            uri |-> import_file_uri])])
        request ==
            [method |-> "instances.import",
             credentials |-> service.value.credentials,
             project |-> Or(project, default_project),
             instance |-> database_instance,
             body |-> instances_import_request_body]
    IN Execute(request, rep)

is_sql_operation_done(operation, project, credentials, a, rep) ==
    LET auth == google_auth_default(a) IN
    IF auth.kind = "raise" THEN Result(<< >>, auth)
    ELSE
    LET default_credentials == auth.value.items[1]
        default_project == auth.value.items[2]
        service == build_sql_admin_service(Or(credentials, default_credentials), a)
    IN
    IF service.kind = "raise" THEN Result(<< >>, service)
    ELSE
    LET request ==
            [method |-> "operations.get",
             credentials |-> service.value.credentials,
             project |-> Or(project, default_project),
             operation |-> operation]
        ex == Execute(request, rep)
    IN
    IF ex.outcome.kind = "raise" THEN ex
    ELSE LET response == ex.outcome.value IN
         IF HasKey(response, "status")
         THEN Result(ex.requests,
                     Return(Bool(response.items["status"] = Str("DONE"))))
         ELSE Result(ex.requests,
                     Raise([cls |-> "KeyError", msg |-> "status"]))

\* the except clause with the test for 404 left out: every caught error
\* falls through
ExceptWithoutNotFound(e, instance) ==
    IF e.cls \in {"HttpError", "HttpLib2Error"}
    THEN Return(None_)
    ELSE Raise(e)

\* the except clause of get_instance: (HttpError, HttpLib2Error) are caught;
\* a 404 HttpError raises NameError, any other caught error falls off the
\* end of the function, which returns None; other classes are not caught
get_instance_except(e, instance) ==
    IF e.cls \in {"HttpError", "HttpLib2Error"}
    THEN IF e.cls = "HttpError" /\ e.status = HTTP_NOT_FOUND
         THEN Raise([cls |-> "NameError",
                     msg |-> Format(<<"Cloud SQL instance ", "{}", " not found.">>,
                                    <<instance>>)])
         ELSE Return(None_)
    ELSE Raise(e)

get_instance(instance, project, credentials, a, rep) ==
    LET auth == google_auth_default(a) IN
    IF auth.kind = "raise" THEN Result(<< >>, auth)
    ELSE
    LET default_credentials == auth.value.items[1]
        default_project == auth.value.items[2]
        service == build_sql_admin_service(Or(credentials, default_credentials), a)
    IN
    IF service.kind = "raise" THEN Result(<< >>, service)
    ELSE
    LET request ==
            [method |-> "instances.get",
             credentials |-> service.value.credentials,
             project |-> Or(project, default_project),
             instance |-> instance]
        ex == Execute(request, rep)
    IN
    IF ex.outcome.kind = "return" THEN ex
    ELSE Result(ex.requests, get_instance_except(ex.outcome.exc, instance))

\* next() over the entries in reverse order: the last OUTGOING entry
NextOutgoingLast(response) ==
    LET addresses == response.items[IP_ADDRESSES].items
        outgoing == SelectSeq(addresses,
                              LAMBDA ip_address:
                                  ip_address.items["type"] = Str("OUTGOING"))
    IN IF outgoing = << >>
       THEN Raise([cls |-> "StopIteration"])
       ELSE Return(outgoing[Len(outgoing)])

\* next(ip_address for ip_address in response[IP_ADDRESSES]
\*      if ip_address['type'] == 'OUTGOING'), called without a default:
\* the first item the generator yields, StopIteration when it yields none
next_outgoing_ip_address(response) ==
    LET addresses == response.items[IP_ADDRESSES].items
        outgoing == SelectSeq(addresses,
                              LAMBDA ip_address:
                                  ip_address.items["type"] = Str("OUTGOING"))
    IN IF outgoing = << >>
       THEN Raise([cls |-> "StopIteration"])
       ELSE Return(Head(outgoing))

\* IP_ADDRESSES in response: None does not support the membership test
Contains(response, key) ==
    IF response.type = "dict"
    THEN Return(Bool(HasKey(response, key)))
    ELSE Raise([cls |-> "TypeError"])

get_outgoing_ip_of_instance(instance, project, credentials, a, rep) ==
    LET got == get_instance(instance, project, credentials, a, rep) IN
    IF got.outcome.kind = "raise" THEN got
    ELSE
    LET response == got.outcome.value
        has_addresses == Contains(response, IP_ADDRESSES)
    IN
    IF has_addresses.kind = "raise" THEN Result(got.requests, has_addresses)
    ELSE IF has_addresses.value.val
    THEN LET outgoing_ip_address == next_outgoing_ip_address(response) IN
         IF outgoing_ip_address.kind = "raise"
         THEN Result(got.requests, outgoing_ip_address)
         ELSE IF Truthy(outgoing_ip_address.value)
         THEN Result(got.requests,
                     Return(outgoing_ip_address.value.items[IP_ADDRESS]))
         ELSE Result(got.requests,
                     Raise([cls |-> "KeyError",
                            msg |-> "No outgoing IP address found."]))
    ELSE Result(got.requests,
                Raise([cls |-> "KeyError",
                       msg |-> Format(<<"{}", " not found in response.">>,
                                      <<Str(IP_ADDRESSES)>>)]))

get_ip_and_service_account(instance, project, credentials, a, rep) ==
    LET got == get_instance(instance, project, credentials, a, rep) IN
    IF got.outcome.kind = "raise" THEN got
    ELSE
    LET response == got.outcome.value
        has_addresses == Contains(response, IP_ADDRESSES)
    IN
    IF has_addresses.kind = "raise" THEN Result(got.requests, has_addresses)
    ELSE
    LET outgoing_ip_address ==
            IF has_addresses.value.val
            THEN next_outgoing_ip_address(response)
            ELSE Return(None_)
    IN
    IF outgoing_ip_address.kind = "raise"
    THEN Result(got.requests, outgoing_ip_address)
    ELSE
    LET ip_address ==
            IF has_addresses.value.val /\ Truthy(outgoing_ip_address.value)
            THEN outgoing_ip_address.value.items[IP_ADDRESS]
            ELSE None_
        service_account ==
            IF HasKey(response, SERVICE_ACCOUNT_EMAIL)
            THEN response.items[SERVICE_ACCOUNT_EMAIL]
            ELSE None_
    IN Result(got.requests, Return(Tuple(<<ip_address, service_account>>)))

----------------------------------------------------------------------------
(* The inputs of an invocation: arguments, uuid4 tokens, service replies.  *)

CredentialArgs == {Omitted, Credentials("caller")}
ProjectArgs == {Omitted, Str("my-project")}
InstanceNames == {Str("db1"), Str("db2")}
OperationIds == {Str("op-1")}
Tokens == {Uuid("0a1b"), Uuid("9f8e")}

\* ambient credentials: present, or none to be found
AmbientCredentials ==
    {[ok |-> TRUE, credentials |-> Credentials("ambient"), project |-> Str("ambient-project")],
     [ok |-> FALSE]}

\* bodies a caller passes explicitly: not passed, None, {} and documents
ExplicitBodies ==
    {Dict(<< >>),
     Dict([name |-> Str("mine"), settings |-> Dict([tier |-> Str("d2")])])}
BodyArgs == {Omitted, None_} \cup ExplicitBodies

\* errors request.execute() raises
TransportErrors ==
    {[cls |-> "HttpError", status |-> 404],
     [cls |-> "HttpError", status |-> 500],
     [cls |-> "HttpLib2Error"],
     [cls |-> "RefreshError"]}

\* operation resources, with and without a status field
OperationDocs ==
    {Dict(("kind" :> Str("sql#operation")) @@ ("status" :> Str(st))) :
         st \in {"DONE", "RUNNING", "PENDING"}}
    \cup {Dict("kind" :> Str("sql#operation"))}

\* entries of an instance's ipAddresses list
IpMappings ==
    {Dict([type |-> Str("INCOMING"), ipAddress |-> Str("1.1.1.1")]),
     Dict([type |-> Str("OUTGOING"), ipAddress |-> Str("2.2.2.2")]),
     Dict([type |-> Str("OUTGOING"), ipAddress |-> Str("3.3.3.3")])}

AddressLists == UNION {[1..n -> IpMappings] : n \in 0..MaxAddrs}

\* instance resources: ipAddresses and serviceAccountEmailAddress are each
\* present or absent
InstanceDocs ==
    LET base == ("kind" :> Str("sql#instance"))
        address_parts == {<< >>} \cup {(IP_ADDRESSES :> List(q)) : q \in AddressLists}
        account_parts == {<< >>, (SERVICE_ACCOUNT_EMAIL :> Str("sa@gcp.example"))}
    IN {Dict(base @@ ad @@ ac) : ad \in address_parts, ac \in account_parts}

Replies(docs) ==
    {[kind |-> "ok", doc |-> d] : d \in docs}
    \cup {[kind |-> "error", exc |-> e] : e \in TransportErrors}

----------------------------------------------------------------------------
(* The state machine: one invocation of one public operation.              *)

Init ==
    /\ adc \in AmbientCredentials
    /\ op = "none"
    /\ args = << >>
    /\ reply = [kind |-> "none"]
    /\ requests = << >>
    /\ outcome = [kind |-> "none"]

\* the state after the invocation named o with arguments kw ended as r
Invoked(o, kw, rep, r) ==
    /\ op' = o
    /\ args' = kw
    /\ reply' = rep
    /\ requests' = r.requests
    /\ outcome' = r.outcome
    /\ UNCHANGED adc

CreateCloudsqlInstance ==
    /\ op = "none"
    /\ \E kw \in [database_instance_body : BodyArgs, project : ProjectArgs, credentials : CredentialArgs],
          uuid4 \in Tokens, rep \in Replies(OperationDocs) :
           Invoked("create_cloudsql_instance", kw, rep,
                   create_cloudsql_instance(
                       Arg(kw.database_instance_body, None_),
                       Arg(kw.project, None_),
                       Arg(kw.credentials, None_),
                       uuid4, adc, rep))

CreateSourceRepresentation ==
    /\ op = "none"
    /\ \E kw \in [ip_address : {Omitted, Str("10.0.0.5")},
                  port : {Omitted, Str("3307")},
                  database_version : {Omitted, Str("MYSQL_5_6")},
                  region : {Omitted, Str("europe-west1")},
                  source_name : {Omitted, Str("ext-master")},
                  source_body : BodyArgs,
                  project : ProjectArgs,
                  credentials : CredentialArgs],
          uuid4 \in Tokens, rep \in Replies(OperationDocs) :
           Invoked("create_source_representation", kw, rep,
                   create_source_representation(
                       Arg(kw.ip_address, None_),
                       Arg(kw.port, DEFAULT_REPLICATION_PORT),
                       Arg(kw.database_version, DEFAULT_2ND_GEN_DB_VERSION),
                       Arg(kw.region, DEFAULT_2ND_GEN_REGION),
                       Arg(kw.source_name, None_),
                       Arg(kw.source_body, None_),
                       Arg(kw.project, None_),
                       Arg(kw.credentials, None_),
                       uuid4, adc, rep))

CreateReplicaInstance ==
    /\ op = "none"
    /\ \E kw \in [master_instance_name : {Omitted, Str("ext-master")},
                  dumpfile_path : {Omitted, Str("gs://bucket/dump.sql")},
                  replica_user : {Omitted, Str("repl")},
                  replica_pwd : {Omitted, Str("secret")},
                  replica_name : {Omitted, Str("replica-1")},
                  replica_body : BodyArgs,
                  project : ProjectArgs,
                  credentials : CredentialArgs],
          uuid4 \in Tokens, rep \in Replies(OperationDocs) :
           Invoked("create_replica_instance", kw, rep,
                   create_replica_instance(
                       Arg(kw.master_instance_name, None_),
                       Arg(kw.dumpfile_path, None_),
                       Arg(kw.replica_user, None_),
                       Arg(kw.replica_pwd, None_),
                       Arg(kw.replica_name, None_),
                       Arg(kw.replica_body, None_),
                       Arg(kw.project, None_),
                       Arg(kw.credentials, None_),
                       uuid4, adc, rep))

ImportSqlDatabase ==
    /\ op = "none"
    /\ \E kw \in [database_instance : InstanceNames,
                  import_file_uri : {Str("gs://bucket/dump.sql")},
                  project : ProjectArgs,
                  credentials : CredentialArgs],
          rep \in Replies(OperationDocs) :
           Invoked("import_sql_database", kw, rep,
                   import_sql_database(
                       kw.database_instance,
                       kw.import_file_uri,
                       Arg(kw.project, None_),
                       Arg(kw.credentials, None_),
                       adc, rep))

IsSqlOperationDone ==
    /\ op = "none"
    /\ \E kw \in [operation : OperationIds, project : ProjectArgs, credentials : CredentialArgs],
          rep \in Replies(OperationDocs) :
           Invoked("is_sql_operation_done", kw, rep,
                   is_sql_operation_done(
                       kw.operation,
                       Arg(kw.project, None_),
                       Arg(kw.credentials, None_),
                       adc, rep))

GetInstance ==
    /\ op = "none"
    /\ \E kw \in [instance : InstanceNames, project : ProjectArgs, credentials : CredentialArgs],
          rep \in Replies(InstanceDocs) :
           Invoked("get_instance", kw, rep,
                   get_instance(
                       kw.instance,
                       Arg(kw.project, None_),
                       Arg(kw.credentials, None_),
                       adc, rep))

GetOutgoingIpOfInstance ==
    /\ op = "none"
    /\ \E kw \in [instance : InstanceNames, project : ProjectArgs, credentials : CredentialArgs],
          rep \in Replies(InstanceDocs) :
           Invoked("get_outgoing_ip_of_instance", kw, rep,
                   get_outgoing_ip_of_instance(
                       kw.instance,
                       Arg(kw.project, None_),
                       Arg(kw.credentials, None_),
                       adc, rep))

GetIpAndServiceAccount ==
    /\ op = "none"
    /\ \E kw \in [instance : InstanceNames, project : ProjectArgs, credentials : CredentialArgs],
          rep \in Replies(InstanceDocs) :
           Invoked("get_ip_and_service_account", kw, rep,
                   get_ip_and_service_account(
                       kw.instance,
                       Arg(kw.project, None_),
                       Arg(kw.credentials, None_),
                       adc, rep))

Next ==
    \/ CreateCloudsqlInstance
    \/ CreateSourceRepresentation
    \/ CreateReplicaInstance
    \/ ImportSqlDatabase
    \/ IsSqlOperationDone
    \/ GetInstance
    \/ GetOutgoingIpOfInstance
    \/ GetIpAndServiceAccount

Spec == Init /\ [][Next]_vars

----------------------------------------------------------------------------
(* Vocabulary of the properties.                                           *)

\* the invocation sent a request and the service answered it with a document
Answered == requests # << >> /\ reply.kind = "ok"

\* the invocation sent a request and the transport failed it
Failed == requests # << >> /\ reply.kind = "error"

IsNotFound(e) == e.cls = "HttpError" /\ e.status = 404

CreateOps ==
    {"create_cloudsql_instance", "create_source_representation", "create_replica_instance"}

\* the body argument of a create operation, as the caller supplied it
BodyArg ==
    CASE op = "create_cloudsql_instance" -> args.database_instance_body
      [] op = "create_source_representation" -> args.source_body
      [] op = "create_replica_instance" -> args.replica_body

\* the ipAddresses entries of the fetched document
Addresses == reply.doc.items["ipAddresses"].items

IsOutgoing(entry) == entry.items["type"] = Str("OUTGOING")

HasOutgoing ==
    /\ "ipAddresses" \in DOMAIN reply.doc.items
    /\ \E i \in 1..Len(Addresses) : IsOutgoing(Addresses[i])

\* the address of the first OUTGOING entry in list order
FirstOutgoingAddress ==
    LET i == CHOOSE k \in 1..Len(Addresses) :
                 /\ IsOutgoing(Addresses[k])
                 /\ \A j \in 1..(k - 1) : ~IsOutgoing(Addresses[j])
    IN Addresses[i].items["ipAddress"]

\* text that may surround an identifier in a message
MessageAffixes == {"", "Cloud SQL instance ", " not found.", "instance ", "."}

Mentions(msg, id) ==
    \E pre \in MessageAffixes, suf \in MessageAffixes : msg = pre \o id \o suf

----------------------------------------------------------------------------
(* C1: a get_instance whose instances.get call fails with an HttpError of  *)
(* a status other than 404, or with an HttpLib2Error, raises that same     *)
(* error to the caller and never returns normally.                         *)
C1_OtherTransportErrorPropagates ==
    (/\ op = "get_instance"
     /\ Failed
     /\ reply.exc.cls \in {"HttpError", "HttpLib2Error"}
     /\ ~IsNotFound(reply.exc))
        => outcome = Raise(reply.exc)

(* C2: get_outgoing_ip_of_instance on a fetched document with an           *)
(* ipAddresses list holding no OUTGOING entry raises KeyError 'No outgoing *)
(* IP address found.'; on a document without ipAddresses it raises         *)
(* KeyError 'ipAddresses not found in response.'; nothing else is raised.  *)
C2_TwoResponseShapeFailures ==
    (/\ op = "get_outgoing_ip_of_instance"
     /\ Answered
     /\ ~HasOutgoing)
        => outcome =
             IF "ipAddresses" \in DOMAIN reply.doc.items
             THEN Raise([cls |-> "KeyError", msg |-> "No outgoing IP address found."])
             ELSE Raise([cls |-> "KeyError", msg |-> "ipAddresses not found in response."])

(* C3: get_ip_and_service_account returns a pair for every fetched         *)
(* document: the ip is None when there is no OUTGOING address, the account *)
(* is None when serviceAccountEmailAddress is missing; it never raises.    *)
C3_LenientExtractionNeverFails ==
    (op = "get_ip_and_service_account" /\ Answered)
        => /\ outcome.kind = "return"
           /\ outcome.value.type = "tuple"
           /\ outcome.value.items[1] =
                  (IF HasOutgoing THEN FirstOutgoingAddress ELSE None_)
           /\ outcome.value.items[2] =
                  (IF "serviceAccountEmailAddress" \in DOMAIN reply.doc.items
                   THEN reply.doc.items["serviceAccountEmailAddress"]
                   ELSE None_)

(* C4: is_sql_operation_done returns a boolean for every status document:  *)
(* True exactly when status is 'DONE', False for any other status and      *)
(* False, without raising, when the document has no status field.          *)
C4_DoneIffStatusIsDone ==
    (op = "is_sql_operation_done" /\ Answered)
        => outcome =
             Return(Bool(/\ "status" \in DOMAIN reply.doc.items
                         /\ reply.doc.items["status"] = Str("DONE")))

(* C5: for each create operation and every body document the caller       *)
(* passes explicitly, whatever its content, the body sent to               *)
(* instances.insert is exactly that document, whatever the other           *)
(* arguments are; no generated default body is sent in its place.          *)
C5_ExplicitBodySentVerbatim ==
    (/\ op \in CreateOps
     /\ requests # << >>
     /\ BodyArg.type = "dict")
        => requests[1].body = BodyArg

(* C6: with no override body and no name supplied, the body sent to        *)
(* instances.insert carries a generated name '<prefix><token>' with the    *)
(* prefix of its action kind, and the fixed defaults: tier                 *)
(* 'db-n1-standard-2' (instance, replica), databaseVersion 'MYSQL_5_7' and *)
(* region 'us-central1' (replica, and source representation when they are  *)
(* not passed), hostPort '<ip_address>:<port>' with port '3306' when not   *)
(* passed (source representation).                                         *)
C6_DefaultBodies ==
    (/\ op \in CreateOps
     /\ requests # << >>
     /\ BodyArg \in {Omitted, None_})
        => LET body == requests[1].body.items IN
           CASE op = "create_cloudsql_instance" ->
                  /\ \E t \in Tokens : body.name = Str("cloudsql-db-" \o t.hex)
                  /\ body.settings.items.tier = Str("db-n1-standard-2")
             [] op = "create_source_representation" ->
                  /\ args.source_name = Omitted =>
                       \E t \in Tokens :
                           body.name = Str("external-mysql-representation-" \o t.hex)
                  /\ args.database_version = Omitted =>
                       body.databaseVersion = Str("MYSQL_5_7")
                  /\ args.region = Omitted => body.region = Str("us-central1")
                  /\ args.ip_address # Omitted =>
                       body.onPremisesConfiguration.items.hostPort =
                           Str(args.ip_address.val \o ":" \o
                               (IF args.port = Omitted THEN "3306" ELSE args.port.val))
             [] op = "create_replica_instance" ->
                  /\ args.replica_name = Omitted =>
                       \E t \in Tokens : body.name = Str("cloudsql-replica-" \o t.hex)
                  /\ body.settings.items.tier = Str("db-n1-standard-2")
                  /\ body.databaseVersion = Str("MYSQL_5_7")
                  /\ body.region = Str("us-central1")

\* a replica created from defaults alone went out to the service
C6_Witness ==
    /\ op = "create_replica_instance"
    /\ args.replica_body = Omitted
    /\ args.replica_name = Omitted
    /\ requests # << >>
    /\ requests[1].body.items.name = Str("cloudsql-replica-9f8e")
    /\ requests[1].body.items.settings.items.tier = Str("db-n1-standard-2")

(* C7: a get_instance whose instances.get call fails with HTTP 404 raises  *)
(* NameError with a message containing the requested instance identifier,  *)
(* not the raw transport error; when the call succeeds the fetched         *)
(* document is returned unmodified.                                        *)
C7_NotFoundBecomesNameError ==
    (op = "get_instance" /\ requests # << >>)
        => /\ (reply.kind = "error" /\ IsNotFound(reply.exc)) =>
                 /\ outcome.kind = "raise"
                 /\ outcome.exc.cls = "NameError"
                 /\ Mentions(outcome.exc.msg, args.instance.val)
                 /\ outcome # Raise(reply.exc)
           /\ reply.kind = "ok" => outcome = Return(reply.doc)

\* instances.get answered 404 for db2 and the caller got the NameError
C7_Witness ==
    /\ op = "get_instance"
    /\ Failed
    /\ IsNotFound(reply.exc)
    /\ args.instance = Str("db2")
    /\ outcome.kind = "raise"
    /\ outcome.exc.cls = "NameError"

(* C8: for every fetched document whose ipAddresses list holds an OUTGOING *)
(* entry, get_outgoing_ip_of_instance returns the ipAddress of the first   *)
(* such entry in list order, and get_ip_and_service_account reports that   *)
(* same address as its first component.                                    *)
C8_FirstOutgoingWins ==
    (Answered /\ HasOutgoing)
        => /\ op = "get_outgoing_ip_of_instance" =>
                 outcome = Return(FirstOutgoingAddress)
           /\ op = "get_ip_and_service_account" =>
                 /\ outcome.kind = "return"
                 /\ outcome.value.items[1] = FirstOutgoingAddress

\* [INCOMING 1.1.1.1, OUTGOING 2.2.2.2] yielded 2.2.2.2
C8_Witness ==
    /\ op = "get_outgoing_ip_of_instance"
    /\ Answered
    /\ HasOutgoing
    /\ Len(Addresses) = 2
    /\ Addresses[1].items["type"] = Str("INCOMING")
    /\ outcome = Return(Str("2.2.2.2"))

(* C9 as claimed: every invocation of a public operation issues exactly    *)
(* one request to the provisioning service, also when that request fails,  *)
(* and the create and import operations return the response unmodified.    *)
C9_ExactlyOneRequest ==
    op # "none"
        => /\ Len(requests) = 1
           /\ (op \in CreateOps \cup {"import_sql_database"} /\ reply.kind = "ok") =>
                  outcome = Return(reply.doc)

(* C9 as amended: every invocation issues exactly one request when the     *)
(* ambient default-credential lookup succeeds and none when that lookup    *)
(* raises; a failed request is never re-issued, and the create and import  *)
(* operations return the response of that one request unmodified.          *)
C9_OneRequestUnlessLookupFails ==
    op # "none"
        => /\ Len(requests) = (IF adc.ok THEN 1 ELSE 0)
           /\ (op \in CreateOps \cup {"import_sql_database"} /\ Answered) =>
                  outcome = Return(reply.doc)

\* an import whose one request failed, and was not sent again
C9_Witness ==
    /\ op = "import_sql_database"
    /\ Failed
    /\ Len(requests) = 1
    /\ outcome = Raise(reply.exc)

(* C10: when the caller passes both credentials and a project, the         *)
(* request is built with exactly those and the invocation does not depend  *)
(* on whether the ambient default-credential lookup succeeds.              *)
C10_SuppliedIdentityNeedsNoDefaults ==
    (/\ op # "none"
     /\ args.credentials # Omitted
     /\ args.project # Omitted)
        => /\ Len(requests) = 1
           /\ requests[1].credentials = args.credentials
           /\ requests[1].project = args.project

====
